---- MODULE Spec2Model ----
(***************************************************************************)
(* Model of parse_nginx_log.py: one run of main() parses an nginx access   *)
(* log into a CSV file and, in commit mode, stages and commits it.         *)
(*                                                                         *)
(* Text is a sequence of elements; an element is a single character        *)
(* (" ", "\t", a digit, a bracket, a quote, a comma) or a run of other     *)
(* non-blank characters that the pattern never inspects ("remote_addr").   *)
(* A file is a sequence of lines.                                          *)
(*                                                                         *)
(* The two writer.writerow calls (lines 61-81, 95-115) are read at the     *)
(* indentation of the block they stand in: the header is written inside    *)
(* the with block, the data row inside the for loop.                       *)
(***************************************************************************)
EXTENDS Integers, Sequences, FiniteSets, TLC

VARIABLES
    args,          \* parsed command line: log, out, commit, message
    fs,            \* file system: path -> [exists, lines]
    outDirExists,  \* does the parent directory of args.out exist
    isWorkTree,    \* is args.repo inside a git working tree
    headTree,      \* content of the output path in the last commit
    indexTree,     \* content of the output path in the index
    otherStaged,   \* the index differs from the last commit on another path
    commits,       \* repository history: sequence of [msg, tree]
    run,           \* number of the current invocation of the script
    pc,            \* position of main()
    filesOpen,     \* f_in and f_out are open
    pos,           \* number of lines f_in has yielded
    outbuf,        \* lines written to f_out, on disk when f_out is closed
    line,          \* loop variable line (after rstrip)
    m,             \* result of LOG_RE.match(line)
    method, path, protocol,
    rows_written,
    stdout,        \* what the run printed
    msg,           \* commit message
    diffrc,        \* diff.returncode
    gitlog,        \* git commands this run has invoked, with their exit status
    consumed,      \* lines the loop of this run has read
    runlog,        \* summary of the finished runs
    rowsOut,       \* the lists this run has handed to writer.writerow
    start          \* file system and history as this run found them

vars == <<args, fs, outDirExists, isWorkTree, headTree, indexTree, otherStaged,
          commits, run, pc, filesOpen, pos, outbuf, line, m, method, path,
          protocol, rows_written, stdout, msg, diffrc, gitlog, consumed, runlog,
          rowsOut, start>>

repoVars == <<isWorkTree, headTree, indexTree, otherStaged, commits>>
loopVars == <<line, m, method, path, protocol>>
histVars == <<runlog, start>>

----------------------------------------------------------------------------
(* Bounds *)

MaxLines == 2
MaxRuns == 2
MaxReqLen == 3

----------------------------------------------------------------------------
(* Text *)

\* the characters \s matches
Blank == {" ", "\t", "\r", "\n"}
Digit == {"0", "1", "2", "3", "4", "5", "6", "7", "8", "9"}

IsSpace(c) == c \in Blank

RECURSIVE RunNS(_, _)
\* index after the longest run of \S starting at i
RunNS(s, i) ==
    IF i > Len(s) \/ IsSpace(s[i]) THEN i ELSE RunNS(s, i + 1)

RECURSIVE RunWS(_, _)
\* index after the longest run of \s starting at i
RunWS(s, i) ==
    IF i > Len(s) \/ ~IsSpace(s[i]) THEN i ELSE RunWS(s, i + 1)

RECURSIVE RunNot(_, _, _)
\* index after the longest run of [^c] starting at i
RunNot(s, i, c) ==
    IF i > Len(s) \/ s[i] = c THEN i ELSE RunNot(s, i + 1, c)

\* The pattern, item by item.  NS: (\S+)  WS: \s+  TL: \[([^\]]+)\]
\* Q: "([^"]*)"  D3: (\d{3})  UP: (\[[^\]]*\])  END: \s*$
LOG_RE == <<
    [t |-> "NS", g |-> "remote_addr"], [t |-> "WS", g |-> ""],
    [t |-> "NS", g |-> ""], [t |-> "WS", g |-> ""],
    [t |-> "NS", g |-> "remote_user"], [t |-> "WS", g |-> ""],
    [t |-> "TL", g |-> "time_local"], [t |-> "WS", g |-> ""],
    [t |-> "Q", g |-> "request"], [t |-> "WS", g |-> ""],
    [t |-> "D3", g |-> "status"], [t |-> "WS", g |-> ""],
    [t |-> "NS", g |-> "body_bytes_sent"], [t |-> "WS", g |-> ""],
    [t |-> "Q", g |-> "http_referer"], [t |-> "WS", g |-> ""],
    [t |-> "Q", g |-> "http_user_agent"], [t |-> "WS", g |-> ""],
    [t |-> "NS", g |-> "request_length"], [t |-> "WS", g |-> ""],
    [t |-> "NS", g |-> "request_time"], [t |-> "WS", g |-> ""],
    [t |-> "UP", g |-> "upstream_name"], [t |-> "WS", g |-> ""],
    [t |-> "UP", g |-> "upstream_other"], [t |-> "WS", g |-> ""],
    [t |-> "NS", g |-> "upstream_addr"], [t |-> "WS", g |-> ""],
    [t |-> "NS", g |-> "upstream_response_length"], [t |-> "WS", g |-> ""],
    [t |-> "NS", g |-> "upstream_response_time"], [t |-> "WS", g |-> ""],
    [t |-> "NS", g |-> "upstream_status"], [t |-> "WS", g |-> ""],
    [t |-> "NS", g |-> "request_id"], [t |-> "END", g |-> ""] >>

Miss == [ok |-> FALSE, next |-> 0, cap |-> <<>>]
Hit(next, cap) == [ok |-> TRUE, next |-> next, cap |-> cap]

\* one item of the pattern matched at position i of s
MatchItem(s, i, t) ==
    CASE t = "NS" ->
           LET j == RunNS(s, i)
           IN  IF j > i THEN Hit(j, SubSeq(s, i, j - 1)) ELSE Miss
      [] t = "WS" ->
           LET j == RunWS(s, i)
           IN  IF j > i THEN Hit(j, <<>>) ELSE Miss
      [] t = "TL" ->
           LET j == RunNot(s, i + 1, "]")
           IN  IF i <= Len(s) /\ s[i] = "[" /\ j > i + 1 /\ j <= Len(s)
               THEN Hit(j + 1, SubSeq(s, i + 1, j - 1)) ELSE Miss
      [] t = "UP" ->
           LET j == RunNot(s, i + 1, "]")
           IN  IF i <= Len(s) /\ s[i] = "[" /\ j <= Len(s)
               THEN Hit(j + 1, SubSeq(s, i, j)) ELSE Miss
      [] t = "Q" ->
           LET j == RunNot(s, i + 1, "\"")
           IN  IF i <= Len(s) /\ s[i] = "\"" /\ j <= Len(s)
               THEN Hit(j + 1, SubSeq(s, i + 1, j - 1)) ELSE Miss
      [] t = "D3" ->
           IF i + 2 <= Len(s) /\ \A k \in i..(i + 2) : s[k] \in Digit
           THEN Hit(i + 3, SubSeq(s, i, i + 2)) ELSE Miss
      [] t = "END" ->
           IF RunWS(s, i) = Len(s) + 1 THEN Hit(Len(s) + 1, <<>>) ELSE Miss

NoMatch == [ok |-> FALSE, g |-> <<>>]

RECURSIVE MatchFrom(_, _, _, _)
MatchFrom(s, i, k, groups) ==
    IF k > Len(LOG_RE) THEN [ok |-> TRUE, g |-> groups]
    ELSE LET it == LOG_RE[k]
             r == MatchItem(s, i, it.t)
         IN  IF ~r.ok THEN NoMatch
             ELSE MatchFrom(s, r.next, k + 1,
                            IF it.g = "" THEN groups
                            ELSE (it.g :> r.cap) @@ groups)

\* LOG_RE.match(line)
LogMatch(s) == MatchFrom(s, 1, 1, <<>>)

RECURSIVE Find(_, _, _)
\* index of the first c in s at or after i, 0 if there is none
Find(s, c, i) ==
    IF i > Len(s) THEN 0 ELSE IF s[i] = c THEN i ELSE Find(s, c, i + 1)

MaxSplit == 2

RECURSIVE Split_NoLimit(_, _, _)
\* Split without the limit on the number of cuts: s.split(sep)
Split_NoLimit(s, sep, maxsplit) ==
    LET k == Find(s, sep, 1)
    IN  IF k = 0 THEN <<s>>
        ELSE <<SubSeq(s, 1, k - 1)>>
             \o Split_NoLimit(SubSeq(s, k + 1, Len(s)), sep, maxsplit)

RECURSIVE Split(_, _, _)
\* s.split(sep, maxsplit)
Split(s, sep, maxsplit) ==
    LET k == Find(s, sep, 1)
    IN  IF maxsplit = 0 \/ k = 0 THEN <<s>>
        ELSE <<SubSeq(s, 1, k - 1)>>
             \o Split(SubSeq(s, k + 1, Len(s)), sep, maxsplit - 1)

\* (parts + ["", "", ""])[:3]
Pad3(parts) == SubSeq(parts \o << <<>>, <<>>, <<>> >>, 1, 3)

RECURSIVE LStrip(_)
LStrip(s) == IF s # <<>> /\ IsSpace(Head(s)) THEN LStrip(Tail(s)) ELSE s

RECURSIVE RStrip(_)
RStrip(s) ==
    IF s # <<>> /\ IsSpace(s[Len(s)]) THEN RStrip(SubSeq(s, 1, Len(s) - 1)) ELSE s

\* s.strip()
Strip(s) == RStrip(LStrip(s))

----------------------------------------------------------------------------
(* CSV *)

Header == <<
    <<"remote_addr">>,
    <<"remote_user">>,
    <<"time_local">>,
    <<"method">>,
    <<"path">>,
    <<"protocol">>,
    <<"status">>,
    <<"body_bytes_sent">>,
    <<"http_referer">>,
    <<"http_user_agent">>,
    <<"request_length">>,
    <<"request_time">>,
    <<"upstream_name">>,
    <<"upstream_other">>,
    <<"upstream_addr">>,
    <<"upstream_response_length">>,
    <<"upstream_response_time">>,
    <<"upstream_status">>,
    <<"request_id">> >>

\* Row with status and body_bytes_sent in each other's place
Row_Swapped(g, meth, pth, proto) == <<
    g["remote_addr"], g["remote_user"], g["time_local"], meth, pth, proto,
    g["body_bytes_sent"], g["status"],
    g["http_referer"], g["http_user_agent"], g["request_length"],
    g["request_time"], g["upstream_name"], g["upstream_other"],
    g["upstream_addr"], g["upstream_response_length"],
    g["upstream_response_time"], g["upstream_status"], g["request_id"] >>

\* the list handed to writer.writerow for a matched line
Row(g, meth, pth, proto) == <<
    g["remote_addr"],
    g["remote_user"],
    g["time_local"],
    meth,
    pth,
    proto,
    g["status"],
    g["body_bytes_sent"],
    g["http_referer"],
    g["http_user_agent"],
    g["request_length"],
    g["request_time"],
    g["upstream_name"],
    g["upstream_other"],
    g["upstream_addr"],
    g["upstream_response_length"],
    g["upstream_response_time"],
    g["upstream_status"],
    g["request_id"] >>

RECURSIVE DoubleQuotes(_)
DoubleQuotes(f) ==
    IF f = <<>> THEN <<>>
    ELSE (IF Head(f) = "\"" THEN <<"\"", "\"">> ELSE <<Head(f)>>)
         \o DoubleQuotes(Tail(f))

\* csv.writer, default dialect: a field is quoted when it holds the
\* delimiter, the quote character or a line break
CsvField(f) ==
    IF \E i \in 1..Len(f) : f[i] \in {",", "\"", "\r", "\n"}
    THEN <<"\"">> \o DoubleQuotes(f) \o <<"\"">>
    ELSE f

RECURSIVE CsvJoin(_)
CsvJoin(row) ==
    IF Len(row) = 0 THEN <<>>
    ELSE IF Len(row) = 1 THEN CsvField(row[1])
    ELSE CsvField(row[1]) \o <<",">> \o CsvJoin(Tail(row))

\* the text line writer.writerow(row) produces, line terminator included
CsvLine(row) == CsvJoin(row) \o <<"\r", "\n">>

----------------------------------------------------------------------------
(* Inputs *)

\* everything of a log line after the status
Rest == <<" ", "b", " ", "\"", "r", "\"", " ", "\"", "g", ",", "x", "\"",
          " ", "l", "\t", "m", " ", "[", "n", "]", " ", "[", "]", " ",
          "d", " ", "e", " ", "f", " ", "s", " ", "i">>

LogLine(addr, req, status, tail) ==
    addr \o <<" ", "-", " ", "u", " ", "\t", "[", "t", " ", "z", "]", " ", "\"">>
         \o req \o <<"\"", " ">> \o status \o Rest \o tail

S200 == <<"2", "0", "0">>

\* lines of the log files of Spec: two that match, two that do not
SpecLines == {
    LogLine(<<"a">>, <<"G", " ", "/", " ", "H">>, S200, <<>>),
    LogLine(<<"a", "\"">>, <<"G">>, <<"4", "0", "4">>, <<" ">>),
    LogLine(<<"a">>, <<"G", " ", "/">>, <<"2", "0">>, <<>>),
    <<"x", " ", "y">> }

NL == <<"\n">>
CRLF == <<"\r", "\n">>

\* a log file whose lines all end in a line feed
Terminated(f) == [i \in 1..Len(f) |-> f[i] \o NL]

RECURSIVE SeqsUpTo(_, _)
\* the sequences over S of length at most n
SeqsUpTo(S, n) ==
    IF n = 0 THEN {<<>>}
    ELSE LET shorter == SeqsUpTo(S, n - 1)
         IN  shorter \cup {Append(q, x) : q \in shorter, x \in S}

ReqChars == {"G", " ", "\t"}

\* lines of the log files of SpecParse: every short request, in lines that
\* match and in lines that fail on the status or on a surplus field
ParseLines ==
    {LogLine(<<"a">>, req, st, tail) :
        req \in SeqsUpTo(ReqChars, MaxReqLen),
        st \in {S200, <<"2", "0">>, <<"2", "x", "0">>},
        tail \in {<<>>, <<"\t">>, <<" ", "j">>}}

Messages == {<<>>, <<" ">>, <<"m">>, <<" ", "m", "\t">>}

\* values of datetime.now().strftime("%Y-%m-%d %H:%M")
Minutes == {"2026-01-01 10:00", "2026-01-01 10:01"}

Absent == [exists |-> FALSE, lines |-> <<>>]
File(ls) == [exists |-> TRUE, lines |-> ls]

OldCsv == File(<< <<"old", "\n">> >>)
HeaderOnly == File(<<CsvLine(Header)>>)
LogFiles(lineset) == {Terminated(f) : f \in SeqsUpTo(lineset, MaxLines)}

LOG == "access.log"
OUT == "out.csv"
Paths == {LOG, OUT}

----------------------------------------------------------------------------
(* State after the interpreter has loaded the script *)

Fresh ==
    /\ run = 1
    /\ pc = "start"
    /\ filesOpen = FALSE
    /\ pos = 0
    /\ outbuf = <<>>
    /\ line = <<>>
    /\ m = NoMatch
    /\ method = <<>>
    /\ path = <<>>
    /\ protocol = <<>>
    /\ rows_written = 0
    /\ stdout = <<>>
    /\ msg = <<>>
    /\ diffrc = -1
    /\ gitlog = <<>>
    /\ consumed = <<>>
    /\ runlog = <<>>
    /\ rowsOut = <<>>
    /\ commits = <<>>
    /\ start = [fs |-> fs, dir |-> outDirExists, commits |-> commits]

\* the repository: only looked at in commit mode; the message is varied on
\* an empty working tree, the repository under the default message
InitRepo ==
    \/ /\ ~args.commit \/ args.message # <<>>
       /\ isWorkTree = TRUE /\ headTree = Absent /\ indexTree = Absent
       /\ otherStaged = FALSE
    \/ /\ args.commit /\ args.message = <<>>
       /\ isWorkTree = FALSE /\ headTree = Absent /\ indexTree = Absent
       /\ otherStaged = FALSE
    \/ /\ args.commit /\ args.message = <<>>
       /\ isWorkTree = TRUE
       /\ headTree \in {Absent, HeaderOnly}
       /\ indexTree = headTree
       /\ otherStaged \in BOOLEAN
       /\ ~(headTree = Absent /\ ~otherStaged)

\* the file system: the log is missing, or a file of its own, or the very
\* file the output goes to; the output is an older file, or is yet to be
\* made, with or without its directory
InitFs(files) ==
    \/ /\ args.log = LOG
       /\ \E lg \in {Absent} \cup {File(f) : f \in files} :
          \E o \in {Absent, OldCsv} :
             fs = [p \in Paths |-> IF p = LOG THEN lg ELSE o]
       /\ outDirExists \in BOOLEAN
       /\ fs[OUT].exists => outDirExists
    \/ /\ args.log = OUT
       /\ \E lg \in {Absent} \cup {File(f) : f \in files} :
             fs = [p \in Paths |-> IF p = LOG THEN Absent ELSE lg]
       /\ outDirExists \in BOOLEAN
       /\ fs[OUT].exists => outDirExists

Init ==
    /\ args \in [log : Paths, out : {OUT}, commit : BOOLEAN, message : Messages]
    /\ ~args.commit => args.message = <<>>
    /\ InitFs(LogFiles(SpecLines))
    /\ InitRepo
    /\ Fresh

InitParse ==
    /\ args \in [log : {LOG}, out : {OUT}, commit : BOOLEAN, message : {<<>>}]
    /\ \E l \in ParseLines, term \in {NL, CRLF, <<>>} :
          fs = [p \in Paths |-> IF p = LOG THEN File(<<l \o term>>) ELSE Absent]
    /\ outDirExists \in BOOLEAN
    /\ isWorkTree = TRUE /\ headTree = Absent /\ indexTree = Absent
    /\ otherStaged = FALSE
    /\ Fresh

----------------------------------------------------------------------------
(* Reading a text file *)

\* text mode with universal newlines: a line read ends in "\n" where the
\* file has "\r\n"
Translate(raw) ==
    IF Len(raw) >= 2 /\ SubSeq(raw, Len(raw) - 1, Len(raw)) = <<"\r", "\n">>
    THEN SubSeq(raw, 1, Len(raw) - 2) \o <<"\n">>
    ELSE raw

RECURSIVE RStripNL(_)
\* line.rstrip("\n")
RStripNL(s) ==
    IF s # <<>> /\ s[Len(s)] = "\n" THEN RStripNL(SubSeq(s, 1, Len(s) - 1)) ELSE s

\* os.path.isfile(p)
IsFile(p) == fs[p].exists

----------------------------------------------------------------------------
(* main() *)

Printed(text, rows) == [text |-> text, rows |-> rows]
GitCall(op, rc) == [op |-> op, rc |-> rc]

\* CheckLog without the test: main goes on whether or not the log exists
CheckLog_Skipped ==
    /\ pc = "start"
    /\ pc' = "ensure"
    /\ UNCHANGED <<args, fs, outDirExists, repoVars, run, filesOpen, pos, outbuf,
                   loopVars, rows_written, stdout, msg, diffrc, gitlog, consumed,
                   histVars, rowsOut>>

\* if not os.path.isfile(args.log): raise SystemExit(...)
CheckLog ==
    /\ pc = "start"
    /\ pc' = IF IsFile(args.log) THEN "ensure" ELSE "fatal"
    /\ UNCHANGED <<args, fs, outDirExists, repoVars, run, filesOpen, pos, outbuf,
                   loopVars, rows_written, stdout, msg, diffrc, gitlog, consumed,
                   histVars, rowsOut>>

\* ensure_parent_dir(args.out)
ensure_parent_dir ==
    /\ pc = "ensure"
    /\ outDirExists' = TRUE
    /\ pc' = "open"
    /\ UNCHANGED <<args, fs, repoVars, run, filesOpen, pos, outbuf, loopVars,
                   rows_written, stdout, msg, diffrc, gitlog, consumed, histVars, rowsOut>>

\* rows_written = 0; with open(args.log, "r") as f_in, open(args.out, "w") as f_out
OpenFiles ==
    /\ pc = "open"
    /\ rows_written' = 0
    /\ filesOpen' = TRUE
    /\ pos' = 0
    /\ fs' = [fs EXCEPT ![args.out] = File(<<>>)]
    /\ outbuf' = <<>>
    /\ pc' = "header"
    /\ UNCHANGED <<args, outDirExists, repoVars, run, loopVars, stdout, msg,
                   diffrc, gitlog, consumed, histVars, rowsOut>>

\* WriteHeader that writes nothing
WriteHeader_Omitted ==
    /\ pc = "header"
    /\ pc' = "loop"
    /\ UNCHANGED <<args, fs, outDirExists, repoVars, run, filesOpen, pos, outbuf,
                   loopVars, rows_written, stdout, msg, diffrc, gitlog, consumed,
                   histVars, rowsOut>>

\* writer = csv.writer(f_out); writer.writerow([...header...])
WriteHeader ==
    /\ pc = "header"
    /\ outbuf' = Append(outbuf, CsvLine(Header))
    /\ rowsOut' = Append(rowsOut, Header)
    /\ pc' = "loop"
    /\ UNCHANGED <<args, fs, outDirExists, repoVars, run, filesOpen, pos,
                   loopVars, rows_written, stdout, msg, diffrc, gitlog, consumed,
                   histVars>>

\* for line in f_in: line = line.rstrip("\n")
NextLine ==
    /\ pc = "loop"
    /\ IF pos < Len(fs[args.log].lines)
       THEN /\ line' = RStripNL(Translate(fs[args.log].lines[pos + 1]))
            /\ pos' = pos + 1
            /\ consumed' = Append(consumed, line')
            /\ pc' = "match"
       ELSE /\ pc' = "close"
            /\ UNCHANGED <<line, pos, consumed>>
    /\ UNCHANGED <<args, fs, outDirExists, repoVars, run, filesOpen, outbuf, m,
                   method, path, protocol, rows_written, stdout, msg, diffrc,
                   gitlog, histVars, rowsOut>>

\* MatchLine with break in the place of continue
MatchLine_Break ==
    /\ pc = "match"
    /\ m' = LogMatch(line)
    /\ pc' = IF m'.ok THEN "split" ELSE "close"
    /\ UNCHANGED <<args, fs, outDirExists, repoVars, run, filesOpen, pos, outbuf,
                   line, method, path, protocol, rows_written, stdout, msg,
                   diffrc, gitlog, consumed, histVars, rowsOut>>

\* m = LOG_RE.match(line); if not m: continue
MatchLine ==
    /\ pc = "match"
    /\ m' = LogMatch(line)
    /\ pc' = IF m'.ok THEN "split" ELSE "loop"
    /\ UNCHANGED <<args, fs, outDirExists, repoVars, run, filesOpen, pos, outbuf,
                   line, method, path, protocol, rows_written, stdout, msg,
                   diffrc, gitlog, consumed, histVars, rowsOut>>

\* parts = request.split(" ", 2); method, path, protocol = (parts + ["", "", ""])[:3]
SplitRequest ==
    /\ pc = "split"
    /\ LET parts == Pad3(Split(m.g["request"], " ", MaxSplit))
       IN  /\ method' = parts[1]
           /\ path' = parts[2]
           /\ protocol' = parts[3]
    /\ pc' = "write"
    /\ UNCHANGED <<args, fs, outDirExists, repoVars, run, filesOpen, pos, outbuf,
                   line, m, rows_written, stdout, msg, diffrc, gitlog, consumed,
                   histVars, rowsOut>>

\* WriteRow that forgets the counter
WriteRow_NoCount ==
    /\ pc = "write"
    /\ outbuf' = Append(outbuf, CsvLine(Row(m.g, method, path, protocol)))
    /\ rowsOut' = Append(rowsOut, Row(m.g, method, path, protocol))
    /\ pc' = "loop"
    /\ UNCHANGED <<args, fs, outDirExists, repoVars, run, filesOpen, pos,
                   loopVars, rows_written, stdout, msg, diffrc, gitlog, consumed,
                   histVars>>

\* writer.writerow([...]); rows_written += 1
WriteRow ==
    /\ pc = "write"
    /\ outbuf' = Append(outbuf, CsvLine(Row(m.g, method, path, protocol)))
    /\ rowsOut' = Append(rowsOut, Row(m.g, method, path, protocol))
    /\ rows_written' = rows_written + 1
    /\ pc' = "loop"
    /\ UNCHANGED <<args, fs, outDirExists, repoVars, run, filesOpen, pos,
                   loopVars, stdout, msg, diffrc, gitlog, consumed, histVars>>

\* leaving the with block: f_out is flushed and both files are closed
CloseFiles ==
    /\ pc = "close"
    /\ fs' = [fs EXCEPT ![args.out] = File(outbuf)]
    /\ filesOpen' = FALSE
    /\ pc' = "report"
    /\ UNCHANGED <<args, outDirExists, repoVars, run, pos, outbuf, loopVars,
                   rows_written, stdout, msg, diffrc, gitlog, consumed, histVars, rowsOut>>

\* print(CSV saved ... rows: rows_written); if args.commit:
Report ==
    /\ pc = "report"
    /\ stdout' = Append(stdout, Printed("CSV saved", rows_written))
    /\ pc' = IF args.commit THEN "revparse" ELSE "done"
    /\ UNCHANGED <<args, fs, outDirExists, repoVars, run, filesOpen, pos, outbuf,
                   loopVars, rows_written, msg, diffrc, gitlog, consumed, histVars, rowsOut>>

----------------------------------------------------------------------------
(* Commit mode.  git(cmd, repo) runs the command with check=True: a non-zero *)
(* exit status raises CalledProcessError, which nothing catches.  Any git    *)
(* command can fail for reasons outside the program (exit status 128).       *)

\* does the index differ from the last commit
StagedDiffers == indexTree # headTree \/ otherStaged

\* GitRevParse run without check=True: its exit status is ignored
GitRevParse_Unchecked ==
    /\ pc = "revparse"
    /\ \E broken \in BOOLEAN :
          LET rc == IF isWorkTree /\ ~broken THEN 0 ELSE 128
          IN  /\ gitlog' = Append(gitlog, GitCall("rev-parse", rc))
              /\ pc' = "add"
    /\ UNCHANGED <<args, fs, outDirExists, repoVars, run, filesOpen, pos, outbuf,
                   loopVars, rows_written, stdout, msg, diffrc, consumed,
                   histVars, rowsOut>>

\* git(["rev-parse", "--is-inside-work-tree"], args.repo)
GitRevParse ==
    /\ pc = "revparse"
    /\ \E broken \in BOOLEAN :
          LET rc == IF isWorkTree /\ ~broken THEN 0 ELSE 128
          IN  /\ gitlog' = Append(gitlog, GitCall("rev-parse", rc))
              /\ pc' = IF rc = 0 THEN "add" ELSE "fatal"
    /\ UNCHANGED <<args, fs, outDirExists, repoVars, run, filesOpen, pos, outbuf,
                   loopVars, rows_written, stdout, msg, diffrc, consumed, histVars, rowsOut>>

\* git(["add", os.path.relpath(args.out, start=args.repo)], args.repo)
GitAdd ==
    /\ pc = "add"
    /\ \E broken \in BOOLEAN :
          LET rc == IF broken THEN 128 ELSE 0
          IN  /\ gitlog' = Append(gitlog, GitCall("add", rc))
              /\ indexTree' = IF rc = 0 THEN fs[args.out] ELSE indexTree
              /\ pc' = IF rc = 0 THEN "message" ELSE "fatal"
    /\ UNCHANGED <<args, fs, outDirExists, isWorkTree, headTree, otherStaged,
                   commits, run, filesOpen, pos, outbuf, loopVars, rows_written,
                   stdout, msg, diffrc, consumed, histVars, rowsOut>>

GeneratedMessage(now) == <<"Update nginx CSV export (", now, ")">>

\* msg = args.message.strip(); if not msg: msg = f"Update nginx CSV export ({now})"
BuildMessage ==
    /\ pc = "message"
    /\ IF Strip(args.message) # <<>>
       THEN msg' = Strip(args.message)
       ELSE \E now \in Minutes : msg' = GeneratedMessage(now)
    /\ pc' = "diff"
    /\ UNCHANGED <<args, fs, outDirExists, repoVars, run, filesOpen, pos, outbuf,
                   loopVars, rows_written, stdout, diffrc, gitlog, consumed,
                   histVars, rowsOut>>

\* GitDiff whose answer is not looked at: the commit is always attempted
GitDiff_AlwaysCommit ==
    /\ pc = "diff"
    /\ \E broken \in BOOLEAN :
          LET rc == IF broken THEN 128 ELSE IF StagedDiffers THEN 1 ELSE 0
          IN  /\ gitlog' = Append(gitlog, GitCall("diff", rc))
              /\ diffrc' = rc
              /\ stdout' = stdout
              /\ pc' = "commit"
    /\ UNCHANGED <<args, fs, outDirExists, repoVars, run, filesOpen, pos, outbuf,
                   loopVars, rows_written, msg, consumed, histVars, rowsOut>>

\* diff = subprocess.run(["git", "-C", args.repo, "diff", "--cached", "--quiet"])
\* if diff.returncode == 0: print("No changes to commit.")
GitDiff ==
    /\ pc = "diff"
    /\ \E broken \in BOOLEAN :
          LET rc == IF broken THEN 128 ELSE IF StagedDiffers THEN 1 ELSE 0
          IN  /\ gitlog' = Append(gitlog, GitCall("diff", rc))
              /\ diffrc' = rc
              /\ IF rc = 0
                 THEN /\ stdout' = Append(stdout, Printed("No changes to commit.", 0))
                      /\ pc' = "done"
                 ELSE /\ stdout' = stdout
                      /\ pc' = "commit"
    /\ UNCHANGED <<args, fs, outDirExists, repoVars, run, filesOpen, pos, outbuf,
                   loopVars, rows_written, msg, consumed, histVars, rowsOut>>

\* git(["commit", "-m", msg], args.repo); print("Committed to Git.")
\* git commit exits with 1 when there is nothing to commit
GitCommit ==
    /\ pc = "commit"
    /\ \E broken \in BOOLEAN :
          LET rc == IF broken THEN 128 ELSE IF StagedDiffers THEN 0 ELSE 1
          IN  /\ gitlog' = Append(gitlog, GitCall("commit", rc))
              /\ IF rc = 0
                 THEN /\ commits' = Append(commits, [msg |-> msg, tree |-> indexTree])
                      /\ headTree' = indexTree
                      /\ otherStaged' = FALSE
                      /\ stdout' = Append(stdout, Printed("Committed to Git.", 0))
                      /\ pc' = "done"
                 ELSE /\ UNCHANGED <<commits, headTree, otherStaged, stdout>>
                      /\ pc' = "fatal"
    /\ UNCHANGED <<args, fs, outDirExists, isWorkTree, indexTree, run, filesOpen,
                   pos, outbuf, loopVars, rows_written, msg, diffrc, consumed,
                   histVars, rowsOut>>

ExitStatus == IF pc = "done" THEN 0 ELSE 1

\* if __name__ == "__main__": main() -- the script is started again with the
\* same command line
Restart ==
    /\ pc \in {"done", "fatal"}
    /\ run < MaxRuns
    /\ runlog' = Append(runlog, [exit |-> ExitStatus, commits |-> commits,
                                 out |-> fs[args.out]])
    /\ run' = run + 1
    /\ pc' = "start"
    /\ filesOpen' = FALSE
    /\ pos' = 0
    /\ outbuf' = <<>>
    /\ line' = <<>>
    /\ m' = NoMatch
    /\ method' = <<>>
    /\ path' = <<>>
    /\ protocol' = <<>>
    /\ rows_written' = 0
    /\ stdout' = <<>>
    /\ msg' = <<>>
    /\ diffrc' = -1
    /\ gitlog' = <<>>
    /\ consumed' = <<>>
    /\ rowsOut' = <<>>
    /\ start' = [fs |-> fs, dir |-> outDirExists, commits |-> commits]
    /\ UNCHANGED <<args, fs, outDirExists, repoVars>>

Next ==
    \/ CheckLog
    \/ ensure_parent_dir
    \/ OpenFiles
    \/ WriteHeader
    \/ NextLine
    \/ MatchLine
    \/ SplitRequest
    \/ WriteRow
    \/ CloseFiles
    \/ Report
    \/ GitRevParse
    \/ GitAdd
    \/ BuildMessage
    \/ GitDiff
    \/ GitCommit
    \/ Restart

Spec == Init /\ [][Next]_vars

SpecParse == InitParse /\ [][Next]_vars

TypeOK ==
    /\ pc \in {"start", "ensure", "open", "header", "loop", "match", "split",
               "write", "close", "report", "revparse", "add", "message", "diff",
               "commit", "done", "fatal"}
    /\ run \in 1..MaxRuns
    /\ rows_written \in Nat

----------------------------------------------------------------------------
(* Vocabulary of the properties *)

Range(f) == {f[i] : i \in DOMAIN f}
Last(q) == q[Len(q)]

Matches(l) == LogMatch(l).ok

\* the CSV line that the groups g of a matched line stand for
TextOf(g) ==
    LET p == Pad3(Split(g["request"], " ", MaxSplit))
    IN  CsvLine(Row(g, p[1], p[2], p[3]))

\* the CSV line a matching line l of the log stands for
RowText(l) == TextOf(LogMatch(l).g)

RECURSIVE Expected(_)
\* the data rows for the lines ls: one per matching line, in their order
Expected(ls) ==
    IF ls = <<>> THEN <<>>
    ELSE LET found == LogMatch(Head(ls))
         IN  (IF found.ok THEN <<TextOf(found.g)>> ELSE <<>>)
             \o Expected(Tail(ls))

\* the lines of the log as the loop finds them: opening the output has
\* emptied the log when both paths name the same file
InputRead ==
    IF args.log = args.out THEN <<>>
    ELSE [i \in 1..Len(fs[args.log].lines) |->
             RStripNL(Translate(fs[args.log].lines[i]))]

InLoop == pc \in {"loop", "match", "split", "write", "close"}
AfterLoop ==
    \/ pc \in {"report", "revparse", "add", "message", "diff", "commit", "done"}
    \/ pc = "fatal" /\ gitlog # <<>>
Ended == pc \in {"done", "fatal"}

Spaces(q) == Cardinality({i \in 1..Len(q) : q[i] = " "})

\* a git command that did not do its work: diff --quiet answers with 0 or 1
Failed(call) ==
    IF call.op = "diff" THEN call.rc \notin {0, 1} ELSE call.rc # 0

Ops(log) == [i \in 1..Len(log) |-> log[i].op]
GitOrder == <<"rev-parse", "add", "diff", "commit">>

NoChanges == Printed("No changes to commit.", 0)
Committed == Printed("Committed to Git.", 0)

----------------------------------------------------------------------------
(* Properties *)

\* C1: once the parse loop is over, the output file is the header row
\* followed by one data row for each matching line of the input, in input
\* order, and nothing else; for an empty input it is the header row alone.
C1_HeaderThenMatchingRows ==
    AfterLoop =>
        /\ consumed = InputRead
        /\ fs[args.out] = File(<<CsvLine(Header)>> \o Expected(consumed))
        /\ (consumed = <<>> => fs[args.out] = HeaderOnly)

C1_Witness ==
    /\ AfterLoop
    /\ Len(consumed) = 2
    /\ Matches(consumed[1]) /\ Matches(consumed[2])
    /\ consumed[1] # consumed[2]
    /\ Len(fs[args.out].lines) = 3

\* C2: the reported row count is the number of data rows in the output
\* file; during the loop rows_written is the number of data rows written so
\* far, never goes down and goes up by one with each data row.
C2_CountIsDataRows ==
    /\ [](InLoop => rows_written = Len(outbuf) - 1 /\ rows_written = Len(rowsOut) - 1)
    /\ [](AfterLoop => rows_written = Len(fs[args.out].lines) - 1)
    /\ [](stdout # <<>> =>
            stdout[1] = Printed("CSV saved", Len(fs[args.out].lines) - 1))
    /\ [][InLoop =>
            /\ rows_written' - rows_written = Len(outbuf') - Len(outbuf)
            /\ rows_written' - rows_written \in {0, 1}]_vars

C2_Witness ==
    /\ pc = "done"
    /\ rows_written = 2
    /\ stdout[1] = Printed("CSV saved", 2)
    /\ Len(consumed) = 2

\* C3: a line that does not match adds no row, leaves the counter alone,
\* raises nothing and does not end the loop: the matching lines after it
\* are still written.
C3_NoMatchSkipped ==
    /\ [][(pc = "match" /\ ~Matches(line)) =>
            /\ pc' = "loop"
            /\ outbuf' = outbuf
            /\ rowsOut' = rowsOut
            /\ rows_written' = rows_written
            /\ pos' = pos]_vars
    /\ [](AfterLoop =>
            \A i, j \in 1..Len(consumed) :
                (i < j /\ ~Matches(consumed[i]) /\ Matches(consumed[j]))
                    => RowText(consumed[j]) \in Range(fs[args.out].lines))

C3_Witness ==
    /\ AfterLoop
    /\ Len(consumed) = 2
    /\ ~Matches(consumed[1]) /\ Matches(consumed[2])
    /\ rows_written = 1
    /\ fs[args.out].lines = <<CsvLine(Header), RowText(consumed[2])>>

\* C4: in commit mode, a run that follows a successful run with the same
\* command line and an untouched repository creates no commit: the history
\* stays as the first run left it, a staged-difference check that gives an
\* answer finds no difference, and unless a git command breaks down the run
\* ends by reporting that there is nothing to commit.
C4_SecondRunNoCommit ==
    (args.commit /\ run >= 2 /\ runlog[run - 1].exit = 0) =>
        /\ commits = runlog[run - 1].commits
        /\ commits = start.commits
        /\ \A i \in 1..Len(gitlog) :
              (gitlog[i].op = "diff" /\ ~Failed(gitlog[i])) => gitlog[i].rc = 0
        /\ AfterLoop => fs[args.out] = runlog[run - 1].out
        /\ (Ended /\ \A i \in 1..Len(gitlog) : gitlog[i].rc # 128) =>
              /\ pc = "done"
              /\ Ops(gitlog) = <<"rev-parse", "add", "diff">>
              /\ stdout = <<Printed("CSV saved", rows_written), NoChanges>>

C4_Witness ==
    /\ args.commit
    /\ run = 2
    /\ runlog[1].exit = 0
    /\ Len(runlog[1].commits) = 1
    /\ pc = "done"
    /\ rows_written >= 1
    /\ Last(stdout) = NoChanges

\* C5: a git command that fails ends the run with a fatal error and is the
\* last git command of the run; a failed staged-difference check is never
\* followed by a commit attempt or a successful exit.
C5_FailureIsFatal ==
    \A i \in 1..Len(gitlog) :
        Failed(gitlog[i]) => (i = Len(gitlog) /\ pc = "fatal")

\* C6: after staging, the run goes on to commit exactly when the index
\* differs from the last commit; when it does not differ the run reports
\* that there is nothing to commit and invokes no further git command; a
\* commit that is created is the only one of the run and carries the given
\* message, or the generated one when none is given.
C6_CommitIffStagedDiffers ==
    /\ [][pc = "diff" =>
            IF StagedDiffers
            THEN pc' = "commit" /\ stdout' = stdout
            ELSE pc' = "done" /\ stdout' = Append(stdout, NoChanges)]_vars
    /\ [](pc = "done" /\ args.commit =>
            IF Last(stdout) = NoChanges
            THEN commits = start.commits /\ "commit" \notin Range(Ops(gitlog))
            ELSE /\ Len(commits) = Len(start.commits) + 1
                 /\ Last(commits).msg =
                       IF Strip(args.message) # <<>> THEN Strip(args.message)
                       ELSE msg
                 /\ (Strip(args.message) = <<>> =>
                        \E now \in Minutes : msg = GeneratedMessage(now)))

\* C7: git commands are invoked in commit mode only, in the order
\* rev-parse, add, diff, commit, each after the one before it has returned;
\* nothing is staged unless rev-parse succeeded; and the first of them runs
\* only once the CSV is complete on disk, the row count printed and both
\* files closed.
C7_GitOrder ==
    gitlog # <<>> =>
        /\ args.commit
        /\ Ops(gitlog) = SubSeq(GitOrder, 1, Len(gitlog))
        /\ \A i \in 1..(Len(gitlog) - 1) : gitlog[i].op # "diff" => gitlog[i].rc = 0
        /\ (Len(gitlog) >= 2 => gitlog[1] = GitCall("rev-parse", 0))
        /\ ~filesOpen
        /\ stdout # <<>> /\ stdout[1] = Printed("CSV saved", rows_written)
        /\ consumed = InputRead
        /\ fs[args.out] = File(outbuf)
        /\ Len(outbuf) = rows_written + 1

C7_Witness ==
    /\ Ops(gitlog) = GitOrder
    /\ pc = "done"
    /\ rows_written >= 1

\* C8: a matching line yields exactly one record; the record has 19 fields,
\* as many as the header has columns, and field i holds the value of the
\* column named by header entry i.
C8_RecordFollowsHeader ==
    (pc = "loop" /\ consumed # <<>> /\ Matches(Last(consumed))) =>
        LET row == Last(rowsOut)
            head == rowsOut[1]
            Named(n) == CASE n = "method" -> method
                          [] n = "path" -> path
                          [] n = "protocol" -> protocol
                          [] OTHER -> m.g[n]
        IN  /\ Len(rowsOut) = 1 + Cardinality({i \in 1..Len(consumed) : Matches(consumed[i])})
            /\ Len(row) = 19
            /\ Len(head) = 19
            /\ head[1] = <<"remote_addr">>
            /\ head[19] = <<"request_id">>
            /\ \A i \in 1..19 : row[i] = Named(head[i][1])

C8_Witness ==
    /\ pc = "loop"
    /\ Len(consumed) = 2
    /\ Matches(consumed[1]) /\ Matches(consumed[2])
    /\ Len(rowsOut) = 3
    /\ Last(rowsOut)[7] = <<"4", "0", "4">>

\* C9: the request is cut at its first two single spaces: with no space the
\* method is the whole request, with one space method and path are its two
\* sides, with more the protocol is everything after the second space;
\* tokens that are missing are empty, and the tokens present, joined by
\* single spaces, give the request back.
C9_RequestSplit ==
    pc = "write" =>
        LET req == m.g["request"]
            n == Spaces(req)
        IN  /\ n = 0 => method = req /\ path = <<>> /\ protocol = <<>>
            /\ n = 1 => /\ method \o <<" ">> \o path = req
                        /\ protocol = <<>>
            /\ n >= 2 => method \o <<" ">> \o path \o <<" ">> \o protocol = req
            /\ Spaces(method) = 0
            /\ Spaces(path) = 0
            /\ Spaces(protocol) = IF n >= 2 THEN n - 2 ELSE 0
            /\ req = <<>> => method = <<>>

C9_Witness ==
    /\ pc = "write"
    /\ Spaces(m.g["request"]) = 3
    /\ protocol = <<" ">>

\* C10: when the log path names no file the run ends at once with a fatal
\* error: no directory is made, the output file is neither created nor
\* emptied, nothing is printed and no git command is invoked.
C10_MissingLog ==
    ~start.fs[args.log].exists =>
        /\ pc \in {"start", "fatal"}
        /\ (pc = "fatal" => ExitStatus # 0)
        /\ fs = start.fs
        /\ outDirExists = start.dir
        /\ ~filesOpen
        /\ stdout = <<>>
        /\ gitlog = <<>>
        /\ commits = start.commits

C10_Witness ==
    /\ pc = "fatal"
    /\ ~start.fs[args.log].exists
    /\ args.commit
    /\ fs[args.out] = OldCsv

====
